---- MODULE Spec2Model ----
(***************************************************************************)
(* Website Field Analyzer: the analysis pipeline of main.py                *)
(*   DOMAnalyzer.analyze  (normalize, filter)                              *)
(*   FormDetector.detect  (group into forms, identify submit mechanisms)   *)
(*   FieldClassifier.classify                                              *)
(*   PageClassifier.classify (form purposes, page type, totals)            *)
(*                                                                         *)
(* Strings are TLA+ strings; Python's `a in b` on strings is Contains,     *)
(* computed with SubSeq.  An Optional[str] is a sequence of length 0       *)
(* (None) or 1 (the string).  Field objects live in the heap `fields`; a   *)
(* Form holds references (heap indices) to them, as the Python lists hold  *)
(* object references.                                                      *)
(***************************************************************************)
EXTENDS Naturals, Sequences, FiniteSets, TLC

VARIABLES pc, elements, cmap, map_failed, fields, filtered, forms, analysis,
          assignments, call, output_file, log, completed

vars ==
    <<pc, elements, cmap, map_failed, fields, filtered, forms, analysis, assignments,
      call, output_file, log, completed>>

(***************************************************************************)
(* Bounds of the model                                                     *)
(***************************************************************************)
\* largest number of catalog parts on a page (Spec)
MaxParts == 3
\* largest number of explicit containers in the container map (Spec)
MaxContainers == 2
\* largest number of form groups on a page (SpecForms)
MaxGroups == 3

(***************************************************************************)
(* Strings                                                                 *)
(***************************************************************************)
None == <<>>

Some(s) == <<s>>

\* Python `x or ''` on an Optional[str]
OrEmpty(o) == IF o = None THEN "" ELSE o[1]

\* Python `x or None` on a str
OrNone(s) == IF s = "" THEN None ELSE Some(s)

\* the elements of a sequence
Range(seq) == {seq[i] : i \in DOMAIN seq}

\* Python `pat in s`
Contains(pat, s) ==
    \E i \in 1..(Len(s) + 1 - Len(pat)) : SubSeq(s, i, i + Len(pat) - 1) = pat

UpperChars == "ABCDEFGHIJKLMNOPQRSTUVWXYZ"

LowerChars == "abcdefghijklmnopqrstuvwxyz"

\* upper-case letter -> lower-case letter
LowerOf ==
    [c \in {SubSeq(UpperChars, i, i) : i \in 1..Len(UpperChars)} |->
        LET i == CHOOSE j \in 1..Len(UpperChars) : SubSeq(UpperChars, j, j) = c
        IN  SubSeq(LowerChars, i, i)]

LowerChar(c) == IF c \in DOMAIN LowerOf THEN LowerOf[c] ELSE c

\* Python str.lower()
RECURSIVE lower(_)
lower(s) ==
    IF s = "" THEN ""
    ELSE LowerChar(SubSeq(s, 1, 1)) \o lower(SubSeq(s, 2, Len(s)))

(***************************************************************************)
(* config/settings.py                                                      *)
(***************************************************************************)
KEEP_HIDDEN_PATTERNS ==
    {"csrf", "token", "session", "authenticity",
     "_token", "csrfmiddlewaretoken", "__requestverificationtoken"}

REMOVE_TRACKING_PATTERNS ==
    {"ga", "gtm", "analytics", "tracking", "pixel",
     "facebook", "fb", "twitter", "linkedin"}

REQUIRED_FIELD_PATTERNS ==
    {"email", "username", "user", "login", "password",
     "pass", "pwd", "signin", "sign-in"}

(***************************************************************************)
(* The page: what the element query and the per-element reads of           *)
(* DOMUtils return.  One record per matched element:                       *)
(*   readOk            get_element_info returned a non-empty dict          *)
(*   tagName..disabled the keys of that dict the pipeline uses             *)
(*   is_visible, selector, label_text, parent_container                    *)
(*                     results of the four other DOMUtils reads            *)
(*   failing           those of the four other reads that raise            *)
(***************************************************************************)
LoginForm == "form#login-form"

FiltersForm == "form#filters"

SignupForm == "form#signup"

ProfileForm == "form#profile"

PrefsForm == "form#prefs"

\* selector the container map gives the second form of the document when it
\* has no id (form_detector.py:139-140)
IndexedForm == "form.form-1"

Body == "body"

Element(tag, type, name, id, placeholder, required, disabled, visible, selector, container) ==
    [readOk |-> TRUE, tagName |-> tag, type |-> type, name |-> name, id |-> id,
     placeholder |-> placeholder, ariaLabel |-> "", required |-> required,
     disabled |-> disabled, is_visible |-> visible, selector |-> selector,
     label_text |-> None, parent_container |-> container, failing |-> {}]

\* the page of tests/test_dom_analysis.py:21-25
EmailInput ==
    Element("input", "email", "email", "", "Email", TRUE, FALSE, TRUE,
            "input[name=\"email\"]", LoginForm)

PasswordInput ==
    Element("input", "password", "password", "", "Password", TRUE, FALSE, TRUE,
            "input[name=\"password\"]", LoginForm)

SubmitButton ==
    Element("button", "submit", "", "", "", FALSE, FALSE, TRUE,
            "html > body > form > button", LoginForm)

\* a hidden token the filter keeps
CsrfToken ==
    Element("input", "hidden", "csrf_token", "", "", FALSE, FALSE, FALSE,
            "input[name=\"csrf_token\"]", LoginForm)

\* a hidden field whose name holds a tracking pattern ('ga') and a token
\* pattern ('session')
TrackedToken ==
    Element("input", "hidden", "ga_session", "", "", FALSE, FALSE, FALSE,
            "input[name=\"ga_session\"]", LoginForm)

\* a required text input that is not displayed
InvisibleUser ==
    Element("input", "text", "username", "", "", TRUE, FALSE, FALSE,
            "input[name=\"username\"]", LoginForm)

\* an input without id and name inside <form id="login-form" class="form-1">:
\* its selector is the tag+class path (dom_utils.py:142-158)
NestedInput ==
    Element("input", "text", "", "", "", FALSE, FALSE, TRUE,
            "html > body > form.form-1 > input", LoginForm)

DisabledButton ==
    Element("button", "button", "", "", "", FALSE, TRUE, TRUE,
            "html > body > form > button.icon", LoginForm)

CountrySelect ==
    Element("select", "select-one", "country", "", "", FALSE, FALSE, TRUE,
            "select[name=\"country\"]", FiltersForm)

SortSelect ==
    Element("select", "select-one", "sort", "", "", FALSE, FALSE, TRUE,
            "select[name=\"sort\"]", FiltersForm)

\* a text input outside any form
SearchBox ==
    Element("input", "text", "q", "", "", FALSE, FALSE, TRUE,
            "input[name=\"q\"]", Body)

\* an element whose get_element_info fails (returns {})
Detached ==
    [Element("input", "text", "", "", "", FALSE, FALSE, FALSE, "", Body)
        EXCEPT !.readOk = FALSE]

\* the parts a page of Spec is made of, in document order: single elements,
\* and the two dropdowns of the filters form
Catalog ==
    <<<<EmailInput>>, <<PasswordInput>>, <<CsrfToken>>, <<TrackedToken>>,
      <<InvisibleUser>>, <<NestedInput>>, <<SubmitButton>>, <<DisabledButton>>,
      <<CountrySelect, SortSelect>>, <<SearchBox>>, <<Detached>>>>

\* the pages of Spec: up to MaxParts parts of the catalog, in document order
RECURSIVE Pick(_, _)
Pick(S, i) ==
    IF i > Len(Catalog) THEN <<>>
    ELSE (IF i \in S THEN Catalog[i] ELSE <<>>) \o Pick(S, i + 1)

Pages ==
    {Pick(S, 1) : S \in {T \in SUBSET (1..Len(Catalog)) : Cardinality(T) <= MaxParts}}

\* the pages of SpecForms are made of whole forms: each group is the elements
\* of one container
TextInput(name, container) ==
    Element("input", "text", name, "", "", FALSE, FALSE, TRUE,
            "input[name=\"" \o name \o "\"]", container)

LoginGroup == <<EmailInput, PasswordInput>>

SignupGroup ==
    <<Element("input", "email", "mail", "", "", TRUE, FALSE, TRUE,
              "input[name=\"mail\"]", SignupForm),
      Element("input", "password", "password", "", "", TRUE, FALSE, TRUE,
              "input[name=\"password\"]", SignupForm),
      Element("input", "password", "confirm", "", "", TRUE, FALSE, TRUE,
              "input[name=\"confirm\"]", SignupForm)>>

SearchGroup == <<SearchBox>>

ListingGroup == <<CountrySelect, SortSelect>>

\* six visible text inputs that match no other purpose rule
ProfileGroup ==
    <<TextInput("first", ProfileForm), TextInput("last", ProfileForm),
      TextInput("street", ProfileForm), TextInput("city", ProfileForm),
      TextInput("zip", ProfileForm), TextInput("phone", ProfileForm)>>

PrefsGroup ==
    <<Element("input", "checkbox", "remember", "", "", FALSE, FALSE, TRUE,
              "input[name=\"remember\"]", PrefsForm)>>

Groups ==
    {LoginGroup, SignupGroup, SearchGroup, ListingGroup, ProfileGroup, PrefsGroup}

\* sequences of n distinct groups
RECURSIVE GroupSeqs(_)
GroupSeqs(n) ==
    IF n = 0 THEN {<<>>}
    ELSE {Append(q, g) : q \in GroupSeqs(n - 1), g \in Groups}

RECURSIVE Flatten(_)
Flatten(q) == IF q = <<>> THEN <<>> ELSE Head(q) \o Flatten(Tail(q))

\* the container maps of SpecForms: no explicit container found, or the two
\* forms with an id that the catalog and the groups share
FormPageMaps == {<<>>, <<LoginForm, FiltersForm>>}

FormPages ==
    {Flatten(q) : q \in {r \in UNION {GroupSeqs(n) : n \in 0..MaxGroups} :
                            Cardinality(Range(r)) = Len(r)}}

\* DOMUtils.get_css_selector for an element at the top of the body: '#id',
\* else tag[name="..."], else the tag path
get_css_selector(tag, name, id) ==
    IF id # "" THEN "#" \o id
    ELSE IF name # "" THEN tag \o "[name=\"" \o name \o "\"]"
    ELSE "html > body > " \o tag

\* the attributes of an element that FieldClassifier reads besides its kind:
\* name, id, placeholder, resolved label, required flag
Signal(name, id, placeholder, label_text, required) ==
    [name |-> name, id |-> id, placeholder |-> placeholder,
     label_text |-> label_text, required |-> required]

NoSignal == Signal("notes", "", "", None, FALSE)

\* signals every kind of element is combined with
KindSignals ==
    {NoSignal,
     Signal("notes", "", "", None, TRUE),
     Signal("UserName", "", "", None, FALSE),
     Signal("", "", "", Some("Your Login"), FALSE),
     Signal("notes", "", "*", None, FALSE)}

\* signals of the text-like elements: the placeholder hints too
TextSignals ==
    KindSignals \cup
    {Signal("", "signin-box", "", None, FALSE),
     Signal("", "", "", None, FALSE),
     Signal("notes", "", "optional *", None, FALSE),
     Signal("notes", "", "Required", None, FALSE),
     Signal("notes", "", "Nickname (Optional)", None, FALSE),
     Signal("notes", "", "Password hint (optional)", None, FALSE),
     Signal("notes", "", "Required", Some("Comment"), FALSE),
     Signal("notes", "", "Your login", None, FALSE),
     Signal("notes", "", "Your login", Some("Comment"), FALSE)}

\* an enabled element outside any form
Variant(tag, type, s, visible) ==
    [Element(tag, type, s.name, s.id, s.placeholder, s.required, FALSE, visible,
             get_css_selector(tag, s.name, s.id), Body)
        EXCEPT !.label_text = s.label_text]

ChoiceVariants ==
    {Variant("input", type, s, TRUE) : type \in {"checkbox", "radio"}, s \in KindSignals}

SelectVariants == {Variant("select", "select-one", s, TRUE) : s \in KindSignals}

TextVariants ==
    {Variant("input", "text", s, visible) : s \in TextSignals, visible \in BOOLEAN}
    \cup {Variant("input", type, s, TRUE) :
              type \in {"email", "password"}, s \in KindSignals}
    \cup {Variant("input", "hidden", Signal("csrf_token", "", "", None, TRUE), FALSE)}
    \cup {[Variant("input", "text", NoSignal, TRUE) EXCEPT !.ariaLabel = "Username"]}

\* the pages of SpecFields: a checkbox or radio, a dropdown and a text-like
\* input, in document order
FieldPages ==
    {<<c, d, t>> : c \in ChoiceVariants, d \in SelectVariants, t \in TextVariants}

\* an enabled element outside any form without any signal but its name
Plain(tag, type, name, visible) == Variant(tag, type, Signal(name, "", "", None, FALSE), visible)

\* the visible fields of the one form of a page of SpecPurpose
VisibleLists ==
    {<<>>,
     <<Plain("input", "password", "password", TRUE)>>,
     <<Plain("input", "text", "username", TRUE),
       Plain("input", "password", "password", TRUE)>>,
     <<Plain("input", "email", "mail", TRUE),
       Plain("input", "password", "password", TRUE)>>,
     <<Plain("input", "email", "mail", TRUE),
       Plain("input", "password", "password", TRUE),
       Plain("input", "password", "confirm", TRUE)>>,
     <<Plain("input", "password", "password", TRUE),
       Plain("input", "password", "confirm", TRUE)>>,
     <<Plain("input", "password", "secret", TRUE)>>,
     <<Plain("input", "password", "secret", TRUE),
       Plain("input", "password", "confirm", TRUE)>>,
     <<Plain("input", "text", "q", TRUE)>>,
     <<Plain("input", "search", "q", TRUE), Plain("input", "checkbox", "exact", TRUE)>>,
     <<Plain("input", "text", "Site_Search", TRUE),
       Plain("input", "checkbox", "exact", TRUE)>>,
     <<Plain("select", "select-one", "country", TRUE),
       Plain("select", "select-one", "sort", TRUE)>>,
     <<Plain("input", "text", "first", TRUE), Plain("input", "text", "last", TRUE),
       Plain("input", "text", "street", TRUE), Plain("input", "text", "city", TRUE),
       Plain("input", "text", "zip", TRUE), Plain("input", "text", "phone", TRUE)>>,
     <<Plain("input", "checkbox", "remember", TRUE)>>,
     <<Plain("input", "text", "first", TRUE), Plain("input", "text", "last", TRUE)>>}

\* fields of the same form that are not displayed
HiddenExtras ==
    {<<>>,
     <<Plain("input", "text", "email", FALSE)>>,
     <<Plain("input", "password", "old", FALSE)>>,
     <<Plain("input", "hidden", "csrf_token", FALSE)>>,
     <<Plain("input", "text", "search", FALSE)>>}

\* the pages of SpecPurpose: one form, its visible fields and its fields that
\* are not displayed, in either document order
PurposePages ==
    {v \o h : v \in VisibleLists, h \in HiddenExtras}
    \cup {h \o v : v \in VisibleLists, h \in HiddenExtras}

\* a visible, enabled element of the form with selector `container`
In(container, tag, type, name) ==
    Element(tag, type, name, "", "", FALSE, FALSE, TRUE,
            get_css_selector(tag, name, ""), container)

\* the kinds of form a slot of a page of SpecPageType can hold
FormKinds == {"login", "signup", "search", "listing", "profile", "prefs", "absent"}

\* the elements of a form of the given kind in the given container
FormOf(kind, c) ==
    IF kind = "login"
    THEN <<In(c, "input", "email", "email"), In(c, "input", "password", "password")>>
    ELSE IF kind = "signup"
    THEN <<In(c, "input", "email", "email"), In(c, "input", "password", "password"),
           In(c, "input", "password", "confirm")>>
    ELSE IF kind = "search" THEN <<In(c, "input", "search", "q")>>
    ELSE IF kind = "listing"
    THEN <<In(c, "select", "select-one", "country"),
           In(c, "select", "select-one", "sort")>>
    ELSE IF kind = "profile"
    THEN <<In(c, "input", "text", "first"), In(c, "input", "text", "last"),
           In(c, "input", "text", "street"), In(c, "input", "text", "city"),
           In(c, "input", "text", "zip"), In(c, "input", "text", "phone")>>
    ELSE IF kind = "prefs" THEN <<In(c, "input", "checkbox", "remember")>>
    ELSE <<>>

\* the forms of a page of SpecPageType, in document order
FormSlots == <<LoginForm, FiltersForm, SignupForm>>

\* the pages of SpecPageType: every slot holds a form of some kind, or none
SlotPages ==
    {Flatten([k \in DOMAIN FormSlots |-> FormOf(kinds[k], FormSlots[k])]) :
        kinds \in [DOMAIN FormSlots -> FormKinds]}

\* names and ids with and without tracking and token patterns
FilterNames ==
    {<<"redirect", "">>, <<"csrf_token", "">>, <<"ga_session", "">>,
     <<"", "GTM-box">>, <<"", "Authenticity">>}

\* elements the filter decides on: text inputs, hidden inputs and submit
\* buttons, enabled or disabled
FilterVariants ==
    {Element(k[1], k[2], n[1], n[2], "", FALSE, disabled, k[2] # "hidden",
             get_css_selector(k[1], n[1], n[2]), Body) :
        k \in {<<"input", "text">>, <<"input", "hidden">>, <<"button", "submit">>},
        n \in FilterNames, disabled \in BOOLEAN}

\* the pages of SpecFilter: an email input between two such elements
FilterPages ==
    {<<a, In(Body, "input", "email", "email"), b>> :
        a \in FilterVariants, b \in FilterVariants}

\* the reads of DOMUtils that follow get_element_info
OtherReads ==
    {"is_visible", "get_css_selector", "get_label_for_input", "get_parent_container"}

\* what can go wrong with the reads of one element: nothing, the descriptor
\* read, one of the other reads, or every read (the element left the page)
FailureModes ==
    {<<TRUE, {}>>, <<FALSE, {}>>, <<FALSE, OtherReads>>}
    \cup {<<TRUE, {r}>> : r \in OtherReads} \cup {<<TRUE, OtherReads>>}

\* the element el with the reads of mode m failing
WithFailure(el, m) == [el EXCEPT !.readOk = m[1], !.failing = m[2]]

\* the element of the page of tests/test_dom_analysis.py:63-68
UsernameInput ==
    [Element("input", "text", "username", "username", "Enter username", TRUE,
             FALSE, TRUE, "#username", Body)
        EXCEPT !.ariaLabel = "Username"]

\* the pages of SpecReads: three text inputs of the login form, or the one
\* input of the normalization test, each with any failure mode
ReadPages ==
    {<<WithFailure(TextInput("first", LoginForm), a),
       WithFailure(TextInput("second", LoginForm), b),
       WithFailure(TextInput("third", LoginForm), c)>> :
        a \in FailureModes, b \in FailureModes, c \in FailureModes}
    \cup {<<WithFailure(UsernameInput, a)>> : a \in FailureModes}

\* the pages of SpecMapFailure: a login form with or without a submit
\* button, a filters form and a search box outside any form, each present or
\* not
MapFailurePages ==
    {FormOf(a, LoginForm) \o s \o FormOf(b, FiltersForm) \o t :
        a \in {"login", "absent"}, s \in {<<>>, <<SubmitButton>>},
        b \in {"listing", "absent"}, t \in {<<>>, <<SearchBox>>}}

\* selectors the container-map query can return
ContainerSelectors == {LoginForm, FiltersForm, IndexedForm}

\* the container maps: the keys of the dict in insertion order
RECURSIVE Maps(_)
Maps(n) ==
    IF n = 0 THEN {<<>>}
    ELSE Maps(n - 1) \cup
         {Append(m, s) : m \in {k \in Maps(n - 1) : Len(k) = n - 1},
                         s \in ContainerSelectors}

ContainerMaps == {m \in Maps(MaxContainers) : Cardinality(Range(m)) = Len(m)}

(***************************************************************************)
(* models/field.py                                                         *)
(***************************************************************************)
Field(tag_name, input_type, name, id, placeholder, aria_label, label_text, required, disabled, visible, selector, parent_container) ==
    [tag_name |-> tag_name, input_type |-> input_type, name |-> name, id |-> id,
     placeholder |-> placeholder, aria_label |-> aria_label,
     label_text |-> label_text, required |-> required, disabled |-> disabled,
     visible |-> visible, selector |-> selector,
     parent_container |-> parent_container, classification |-> "unknown"]

is_password(f) == f.input_type = "password"

is_submit(f) == f.input_type = "submit" \/ f.tag_name = "button"

get_label(f) ==
    IF OrEmpty(f.label_text) # "" THEN f.label_text[1]
    ELSE IF OrEmpty(f.placeholder) # "" THEN f.placeholder[1]
    ELSE IF OrEmpty(f.aria_label) # "" THEN f.aria_label[1]
    ELSE IF OrEmpty(f.name) # "" THEN f.name[1]
    ELSE IF OrEmpty(f.id) # "" THEN f.id[1]
    ELSE f.tag_name \o "[" \o f.input_type \o "]"

(***************************************************************************)
(* analyzer/dom_analyzer.py                                                *)
(***************************************************************************)
\* the four DOMUtils reads that follow get_element_info; each catches its
\* own exception and returns a default
is_visible(e) == IF "is_visible" \in e.failing THEN FALSE ELSE e.is_visible

css_selector(e) == IF "get_css_selector" \in e.failing THEN "" ELSE e.selector

get_label_for_input(e) ==
    IF "get_label_for_input" \in e.failing THEN None ELSE e.label_text

get_parent_container(e) ==
    IF "get_parent_container" \in e.failing THEN "body" ELSE e.parent_container

\* NormalizeElement without the `or None` of the optional attributes
NormalizeElement_keep_empty(e) ==
    Field(e.tagName, e.type, Some(e.name), Some(e.id), Some(e.placeholder),
          Some(e.ariaLabel), get_label_for_input(e), e.required, e.disabled,
          is_visible(e), css_selector(e), get_parent_container(e))

\* the Field built from one element whose get_element_info gave a descriptor
NormalizeElement(e) ==
    Field(e.tagName, e.type, OrNone(e.name), OrNone(e.id), OrNone(e.placeholder),
          OrNone(e.ariaLabel), get_label_for_input(e), e.required, e.disabled,
          is_visible(e), css_selector(e), get_parent_container(e))

\* an element whose info is empty is skipped
RECURSIVE _normalize_elements(_)
_normalize_elements(els) ==
    IF els = <<>> THEN <<>>
    ELSE (IF Head(els).readOk THEN <<NormalizeElement(Head(els))>> ELSE <<>>)
         \o _normalize_elements(Tail(els))

\* _is_tracking_field looking at the name only
_is_tracking_field_name_only(f) ==
    LET name_lower == lower(OrEmpty(f.name))
    IN  \E pattern \in REMOVE_TRACKING_PATTERNS : Contains(pattern, name_lower)

_is_tracking_field(f) ==
    LET name_lower == lower(OrEmpty(f.name))
        id_lower == lower(OrEmpty(f.id))
    IN  \E pattern \in REMOVE_TRACKING_PATTERNS :
            Contains(pattern, name_lower) \/ Contains(pattern, id_lower)

\* _is_important_hidden_field looking at the id only
_is_important_hidden_field_id_only(f) ==
    LET id_lower == lower(OrEmpty(f.id))
    IN  \E pattern \in KEEP_HIDDEN_PATTERNS : Contains(pattern, id_lower)

_is_important_hidden_field(f) ==
    LET name_lower == lower(OrEmpty(f.name))
        id_lower == lower(OrEmpty(f.id))
    IN  \E pattern \in KEEP_HIDDEN_PATTERNS :
            Contains(pattern, name_lower) \/ Contains(pattern, id_lower)

\* FilterKeeps with the hidden-token retention tested before the tracking
\* patterns
FilterKeeps_hidden_first(f) ==
    IF f.disabled THEN FALSE
    ELSE IF f.input_type = "hidden" THEN _is_important_hidden_field(f)
    ELSE IF _is_tracking_field(f) THEN FALSE
    ELSE TRUE

\* the per-field decision of the filter loop
FilterKeeps(f) ==
    IF f.disabled THEN FALSE
    ELSE IF _is_tracking_field(f) THEN FALSE
    ELSE IF f.input_type = "hidden" THEN _is_important_hidden_field(f)
    ELSE TRUE

\* the references to the kept Field objects, in order
_filter_elements(heap) ==
    SelectSeq([i \in DOMAIN heap |-> i], LAMBDA i : FilterKeeps(heap[i]))

(***************************************************************************)
(* models/form.py                                                          *)
(***************************************************************************)
Form(form_id, form_fields, container_selector, form_tag_selector) ==
    [form_id |-> form_id, fields |-> form_fields, submit_element |-> None,
     form_purpose |-> "unknown", container_selector |-> container_selector,
     form_tag_selector |-> form_tag_selector, has_required_fields |-> FALSE,
     notes |-> <<>>]

(***************************************************************************)
(* analyzer/form_detector.py                                               *)
(***************************************************************************)
HexChars == "0123456789abcdef"

\* the characters of selectors, numbered; any other character counts 0
Alphabet == "abcdefghijklmnopqrstuvwxyz0123456789#.-_ >[]=\"*:()"

OrdOf ==
    [c \in {SubSeq(Alphabet, i, i) : i \in 1..Len(Alphabet)} |->
        CHOOSE j \in 1..Len(Alphabet) : SubSeq(Alphabet, j, j) = c]

Ord(c) == IF c \in DOMAIN OrdOf THEN OrdOf[c] ELSE 0

\* number of hex digits of the digest kept in a form id
DigestLen == 8

\* hashlib.md5(selector.encode()): the 32 bits the first DigestLen hex digits
\* show, as two 16-bit words.  MD5 itself is not computed: two multiplicative
\* string hashes stand for it (a deterministic function of the characters of
\* the selector and of nothing else).
RECURSIVE md5word(_, _)
md5word(s, mult) ==
    IF s = "" THEN 5381
    ELSE (md5word(SubSeq(s, 1, Len(s) - 1), mult) * mult
          + Ord(SubSeq(s, Len(s), Len(s)))) % 65536

md5(s) == <<md5word(s, 33), md5word(s, 131)>>

\* the n lowest hex digits of h, most significant first
RECURSIVE hex(_, _)
hex(h, n) ==
    IF n = 0 THEN ""
    ELSE hex(h \div 16, n - 1) \o SubSeq(HexChars, (h % 16) + 1, (h % 16) + 1)

\* .hexdigest()[:n] for n a multiple of 2 up to 8
hexdigest(d, n) == hex(d[1], n \div 2) \o hex(d[2], n \div 2)

_generate_form_id(selector) == "form_" \o hexdigest(md5(selector), DigestLen)

\* _get_form_groups that lets the result of a failed query through
_get_form_groups_unguarded(failed, form_info) == form_info

\* the keys of the dict _get_form_groups returns: those the query evaluated
\* to, or none when the query raised
_get_form_groups(failed, form_info) == IF failed THEN <<>> ELSE form_info

\* the test of the tier-1 loop: container equal, or own selector contains it
MatchesContainer(f, form_selector) ==
    f.parent_container = form_selector \/ Contains(form_selector, f.selector)

\* Priority 1: one Form per container of the map that has matching fields
RECURSIVE Tier1Forms(_, _, _)
Tier1Forms(heap, input_fields, form_selectors) ==
    IF form_selectors = <<>> THEN <<>>
    ELSE LET form_selector == Head(form_selectors)
             form_fields ==
                 SelectSeq(input_fields,
                           LAMBDA i : MatchesContainer(heap[i], form_selector))
         IN  (IF form_fields # <<>>
              THEN <<Form(_generate_form_id(form_selector), form_fields,
                          form_selector, Some(form_selector))>>
              ELSE <<>>)
             \o Tier1Forms(heap, input_fields, Tail(form_selectors))

\* the tier-1 loop recording no assignment
AssignedFields_none(heap, input_fields, form_selectors) == {}

\* the references added to assigned_fields by the tier-1 loop
AssignedFields(heap, input_fields, form_selectors) ==
    {i \in Range(input_fields) :
        \E k \in DOMAIN form_selectors : MatchesContainer(heap[i], form_selectors[k])}

\* the keys of container_groups, in insertion order
RECURSIVE ContainerKeys(_, _, _)
ContainerKeys(heap, unassigned_fields, seen) ==
    IF unassigned_fields = <<>> THEN <<>>
    ELSE LET container == heap[Head(unassigned_fields)].parent_container
         IN  (IF container \in seen THEN <<>> ELSE <<container>>)
             \o ContainerKeys(heap, Tail(unassigned_fields), seen \cup {container})

\* Tier2Forms that makes no form for the fields outside any container
Tier2Forms_skip_body(heap, unassigned_fields) ==
    LET keys == SelectSeq(ContainerKeys(heap, unassigned_fields, {}),
                          LAMBDA c : c # Body)
    IN  [k \in DOMAIN keys |->
            Form(_generate_form_id(keys[k]),
                 SelectSeq(unassigned_fields,
                           LAMBDA i : heap[i].parent_container = keys[k]),
                 keys[k], None)]

\* Priority 2 & 3: one Form per parent container of the unassigned fields
Tier2Forms(heap, unassigned_fields) ==
    LET keys == ContainerKeys(heap, unassigned_fields, {})
    IN  [k \in DOMAIN keys |->
            Form(_generate_form_id(keys[k]),
                 SelectSeq(unassigned_fields,
                           LAMBDA i : heap[i].parent_container = keys[k]),
                 keys[k], None)]

\* _group_into_forms with the default form emitted as soon as tier 1 finds
\* no form
_group_into_forms_early_default(heap, field_refs, form_groups) ==
    LET input_fields == SelectSeq(field_refs, LAMBDA i : ~is_submit(heap[i]))
        assigned_fields == AssignedFields(heap, input_fields, form_groups)
        unassigned_fields ==
            SelectSeq(input_fields, LAMBDA i : i \notin assigned_fields)
        detected == Tier1Forms(heap, input_fields, form_groups)
    IN  IF detected = <<>> /\ input_fields # <<>>
        THEN <<Form("default_form", input_fields, Body, None)>>
        ELSE detected \o Tier2Forms(heap, unassigned_fields)

\* _group_into_forms that does not set the submit-typed fields aside
_group_into_forms_all_fields(heap, field_refs, form_groups) ==
    LET input_fields == field_refs
        assigned_fields == AssignedFields(heap, input_fields, form_groups)
        unassigned_fields ==
            SelectSeq(input_fields, LAMBDA i : i \notin assigned_fields)
        detected == Tier1Forms(heap, input_fields, form_groups)
                    \o Tier2Forms(heap, unassigned_fields)
    IN  IF detected = <<>> /\ input_fields # <<>>
        THEN <<Form("default_form", input_fields, Body, None)>>
        ELSE detected

_group_into_forms(heap, field_refs, form_groups) ==
    LET input_fields == SelectSeq(field_refs, LAMBDA i : ~is_submit(heap[i]))
        assigned_fields == AssignedFields(heap, input_fields, form_groups)
        unassigned_fields ==
            SelectSeq(input_fields, LAMBDA i : i \notin assigned_fields)
        detected == Tier1Forms(heap, input_fields, form_groups)
                    \o Tier2Forms(heap, unassigned_fields)
    IN  IF detected = <<>> /\ input_fields # <<>>
        THEN <<Form("default_form", input_fields, Body, None)>>
        ELSE detected

\* what the submit query of one form can give: a descriptor, null, or an
\* exception
SubmitOutcomes == {"found", "none", "failed"}

\* the descriptor of a submit element that was found
SubmitInfo ==
    [tag |-> "button", type |-> "submit", text |-> "Login", id |-> "",
     className |-> ""]

\* IdentifySubmit whose exception handler appends no note
IdentifySubmit_silent_failure(form, outcome) ==
    IF outcome = "found" THEN [form EXCEPT !.submit_element = Some(SubmitInfo)]
    ELSE IF outcome = "none"
    THEN [form EXCEPT !.notes = Append(@, "No explicit submit button found")]
    ELSE form

\* the body of the loop of _identify_submit_mechanisms for one form
IdentifySubmit(form, outcome) ==
    IF outcome = "found" THEN [form EXCEPT !.submit_element = Some(SubmitInfo)]
    ELSE IF outcome = "none"
    THEN [form EXCEPT !.notes = Append(@, "No explicit submit button found")]
    ELSE [form EXCEPT !.notes = Append(@, "Submit detection failed")]

\* get_required_fields reading the required flag instead of the classification
get_required_fields_by_flag(heap, form) ==
    SelectSeq(form.fields, LAMBDA i : heap[i].required)

\* Form methods of models/form.py; heap holds the Field objects
get_required_fields(heap, form) ==
    SelectSeq(form.fields, LAMBDA i : heap[i].classification = "required")

get_visible_fields(heap, form) ==
    SelectSeq(form.fields, LAMBDA i : heap[i].visible)

\* has_password_field looking at the field names instead of the input kind
has_password_field_by_name(heap, form) ==
    \E k \in DOMAIN form.fields :
        Contains("pwd", lower(OrEmpty(heap[form.fields[k]].name)))

has_password_field(heap, form) ==
    \E k \in DOMAIN form.fields : is_password(heap[form.fields[k]])

has_email_field(heap, form) ==
    \E k \in DOMAIN form.fields :
        LET f == heap[form.fields[k]]
        IN  \/ f.input_type = "email"
            \/ Contains("email", lower(OrEmpty(f.name)))
            \/ Contains("email", lower(OrEmpty(f.id)))

(***************************************************************************)
(* analyzer/field_classifier.py                                            *)
(***************************************************************************)
\* _classify_field with the required flag tested before the hidden rule
_classify_field_required_first(f) ==
    IF f.required THEN "required"
    ELSE IF f.input_type = "hidden" \/ ~f.visible THEN "hidden"
    ELSE "optional"

\* _classify_field with the checkbox/radio and select rules tested before the
\* required signals
_classify_field_choice_first(f) ==
    LET name_lower == lower(OrEmpty(f.name))
        id_lower == lower(OrEmpty(f.id))
        label_lower == lower(get_label(f))
    IN  IF f.input_type = "hidden" \/ ~f.visible THEN "hidden"
        ELSE IF f.input_type \in {"checkbox", "radio"} THEN "optional"
        ELSE IF f.tag_name = "select" THEN "optional"
        ELSE IF f.required THEN "required"
        ELSE IF is_password(f) THEN "required"
        ELSE IF \E pattern \in REQUIRED_FIELD_PATTERNS :
                    \/ Contains(pattern, name_lower)
                    \/ Contains(pattern, id_lower)
                    \/ Contains(pattern, label_lower)
             THEN "required"
        ELSE IF f.input_type = "email" THEN "required"
        ELSE IF f.placeholder # None /\ Contains("optional", lower(f.placeholder[1]))
             THEN "optional"
        ELSE IF f.placeholder # None
                /\ (\/ Contains("required", lower(f.placeholder[1]))
                    \/ Contains("*", f.placeholder[1]))
             THEN "required"
        ELSE "optional"

\* _classify_field matching the required keywords against placeholder and
\* aria-label too, whatever the label is
_classify_field_all_texts(f) ==
    LET texts == {lower(OrEmpty(f.name)), lower(OrEmpty(f.id)), lower(get_label(f)),
                  lower(OrEmpty(f.placeholder)), lower(OrEmpty(f.aria_label))}
    IN  IF f.input_type = "hidden" \/ ~f.visible THEN "hidden"
        ELSE IF f.required THEN "required"
        ELSE IF is_password(f) THEN "required"
        ELSE IF \E pattern \in REQUIRED_FIELD_PATTERNS :
                    \E text \in texts : Contains(pattern, text)
             THEN "required"
        ELSE IF f.input_type = "email" THEN "required"
        ELSE IF f.input_type \in {"checkbox", "radio"} THEN "optional"
        ELSE IF f.tag_name = "select" THEN "optional"
        ELSE IF f.placeholder # None /\ Contains("optional", lower(f.placeholder[1]))
             THEN "optional"
        ELSE IF f.placeholder # None
                /\ (\/ Contains("required", lower(f.placeholder[1]))
                    \/ Contains("*", f.placeholder[1]))
             THEN "required"
        ELSE "optional"

\* _classify_field without the rule for password inputs
_classify_field_no_password_rule(f) ==
    LET name_lower == lower(OrEmpty(f.name))
        id_lower == lower(OrEmpty(f.id))
        label_lower == lower(get_label(f))
    IN  IF f.input_type = "hidden" \/ ~f.visible THEN "hidden"
        ELSE IF f.required THEN "required"
        ELSE IF \E pattern \in REQUIRED_FIELD_PATTERNS :
                    \/ Contains(pattern, name_lower)
                    \/ Contains(pattern, id_lower)
                    \/ Contains(pattern, label_lower)
             THEN "required"
        ELSE IF f.input_type = "email" THEN "required"
        ELSE "optional"

_classify_field(f) ==
    LET name_lower == lower(OrEmpty(f.name))
        id_lower == lower(OrEmpty(f.id))
        label_lower == lower(get_label(f))
    IN  IF f.input_type = "hidden" \/ ~f.visible THEN "hidden"
        ELSE IF f.required THEN "required"
        ELSE IF is_password(f) THEN "required"
        ELSE IF \E pattern \in REQUIRED_FIELD_PATTERNS :
                    \/ Contains(pattern, name_lower)
                    \/ Contains(pattern, id_lower)
                    \/ Contains(pattern, label_lower)
             THEN "required"
        ELSE IF f.input_type = "email" THEN "required"
        ELSE IF f.input_type \in {"checkbox", "radio"} THEN "optional"
        ELSE IF f.tag_name = "select"
             THEN (IF \E word \in {"filter", "sort", "category", "type"} :
                          Contains(word, label_lower)
                   THEN "optional"
                   ELSE "optional")
        ELSE IF f.placeholder # None /\ Contains("optional", lower(f.placeholder[1]))
             THEN "optional"
        ELSE IF f.placeholder # None
                /\ (\/ Contains("required", lower(f.placeholder[1]))
                    \/ Contains("*", f.placeholder[1]))
             THEN "required"
        ELSE "optional"

\* the references held by the forms
FormFieldRefs(fs) == UNION {Range(fs[k].fields) : k \in DOMAIN fs}

\* the number of times `field.classification = ...` has run for every Field:
\* once more for each position of each form the loops visit
ClassificationWrites(counts, fs) ==
    [i \in DOMAIN counts |->
        counts[i] + Cardinality({p \in UNION {{<<k, j>> : j \in DOMAIN fs[k].fields} :
                                                 k \in DOMAIN fs} :
                                    fs[p[1]].fields[p[2]] = i})]

\* the heap after the loops of FieldClassifier.classify: every Field a form
\* refers to gets its classification written
ClassifiedHeap(heap, fs) ==
    [i \in DOMAIN heap |->
        IF i \in FormFieldRefs(fs)
        THEN [heap[i] EXCEPT !.classification = _classify_field(heap[i])]
        ELSE heap[i]]

(***************************************************************************)
(* analyzer/page_classifier.py                                             *)
(***************************************************************************)
\* _detect_form_purpose whose single-field rule accepts the search kind only
_detect_form_purpose_search_kind_only(heap, form) ==
    LET visible_fields == get_visible_fields(heap, form)
        field_count == Len(visible_fields)
        has_email == has_email_field(heap, form)
        has_password == has_password_field(heap, form)
        password_count ==
            Len(SelectSeq(visible_fields, LAMBDA i : is_password(heap[i])))
        select_count ==
            Len(SelectSeq(visible_fields, LAMBDA i : heap[i].tag_name = "select"))
    IN  IF /\ has_password
           /\ password_count = 1
           /\ \/ has_email
              \/ \E k \in DOMAIN visible_fields :
                    Contains("user", lower(OrEmpty(heap[visible_fields[k]].name)))
        THEN "login"
        ELSE IF has_email /\ password_count >= 2 THEN "signup"
        ELSE IF \E k \in DOMAIN visible_fields :
                    LET f == heap[visible_fields[k]]
                    IN  \/ Contains("search", lower(OrEmpty(f.name)))
                        \/ Contains("search", lower(OrEmpty(f.placeholder)))
                        \/ f.input_type = "search"
             THEN "search"
        ELSE IF select_count >= 2 THEN "listing"
        ELSE IF field_count > 5 THEN "mixed"
        ELSE "unknown"

_detect_form_purpose(heap, form) ==
    LET visible_fields == get_visible_fields(heap, form)
        field_count == Len(visible_fields)
        has_email == has_email_field(heap, form)
        has_password == has_password_field(heap, form)
        password_count ==
            Len(SelectSeq(visible_fields, LAMBDA i : is_password(heap[i])))
        select_count ==
            Len(SelectSeq(visible_fields, LAMBDA i : heap[i].tag_name = "select"))
    IN  IF /\ has_password
           /\ password_count = 1
           /\ \/ has_email
              \/ \E k \in DOMAIN visible_fields :
                    LET name_lower == lower(OrEmpty(heap[visible_fields[k]].name))
                    IN  Contains("username", name_lower) \/ Contains("user", name_lower)
        THEN "login"
        ELSE IF has_email /\ password_count >= 2 THEN "signup"
        ELSE IF field_count = 1
                /\ heap[visible_fields[1]].input_type \in {"text", "search"}
             THEN "search"
        ELSE IF \E k \in DOMAIN visible_fields :
                    LET f == heap[visible_fields[k]]
                    IN  \/ Contains("search", lower(OrEmpty(f.name)))
                        \/ Contains("search", lower(OrEmpty(f.placeholder)))
                        \/ f.input_type = "search"
             THEN "search"
        ELSE IF select_count >= 2 THEN "listing"
        ELSE IF field_count > 5 THEN "mixed"
        ELSE "unknown"

\* _classify_page without the login-and-search rule
_classify_page_no_mixed_rule(fs) ==
    LET purposes == [k \in DOMAIN fs |-> fs[k].form_purpose]
        unique_purposes == Range(purposes)
    IN  IF fs = <<>> THEN "unknown"
        ELSE IF Cardinality(unique_purposes) = 1 THEN purposes[1]
        ELSE IF "login" \in unique_purposes THEN "login"
        ELSE IF "signup" \in unique_purposes THEN "signup"
        ELSE IF "search" \in unique_purposes THEN "search"
        ELSE IF "listing" \in unique_purposes THEN "listing"
        ELSE "mixed"

\* _classify_page whose single-purpose test counts the forms instead of the
\* distinct purposes
_classify_page_single_form(fs) ==
    LET purposes == [k \in DOMAIN fs |-> fs[k].form_purpose]
        unique_purposes == Range(purposes)
    IN  IF fs = <<>> THEN "unknown"
        ELSE IF Len(purposes) = 1 THEN purposes[1]
        ELSE IF "login" \in unique_purposes /\ "search" \in unique_purposes
             THEN "mixed"
        ELSE IF "login" \in unique_purposes THEN "login"
        ELSE IF "signup" \in unique_purposes THEN "signup"
        ELSE IF "search" \in unique_purposes THEN "search"
        ELSE IF "listing" \in unique_purposes THEN "listing"
        ELSE "mixed"

_classify_page(fs) ==
    LET purposes == [k \in DOMAIN fs |-> fs[k].form_purpose]
        unique_purposes == Range(purposes)
    IN  IF fs = <<>> THEN "unknown"
        ELSE IF Cardinality(unique_purposes) = 1 THEN purposes[1]
        ELSE IF "login" \in unique_purposes /\ "search" \in unique_purposes
             THEN "mixed"
        ELSE IF "login" \in unique_purposes THEN "login"
        ELSE IF "signup" \in unique_purposes THEN "signup"
        ELSE IF "search" \in unique_purposes THEN "search"
        ELSE IF "listing" \in unique_purposes THEN "listing"
        ELSE "mixed"

RECURSIVE SumSeq(_)
SumSeq(ns) == IF ns = <<>> THEN 0 ELSE Head(ns) + SumSeq(Tail(ns))

\* the statistics of PageClassifier.classify
total_fields(fs) == SumSeq([k \in DOMAIN fs |-> Len(fs[k].fields)])

total_required(heap, fs) ==
    SumSeq([k \in DOMAIN fs |-> Len(get_required_fields(heap, fs[k]))])

\* models/page.py
PageAnalysis(page_type, fs, n_fields, n_required, n_forms) ==
    [page_type |-> page_type, forms |-> fs, total_fields |-> n_fields,
     total_required |-> n_required, total_forms |-> n_forms, notes |-> <<>>]

(***************************************************************************)
(* The pipeline: _run_analysis_pipeline of main.py                         *)
(***************************************************************************)
Init ==
    /\ pc = "normalize"
    /\ elements \in Pages
    /\ cmap \in ContainerMaps
    /\ map_failed = FALSE
    /\ fields = <<>>
    /\ filtered = <<>>
    /\ forms = <<>>
    /\ analysis = None
    /\ assignments = <<>>
    /\ call = "attempt1"
    /\ output_file = None
    /\ log = <<>>
    /\ completed = <<>>

Normalize ==
    /\ pc = "normalize"
    /\ fields' = _normalize_elements(elements)
    /\ assignments' = [i \in DOMAIN fields' |-> 0]
    /\ pc' = "filter"
    /\ UNCHANGED <<call, output_file, log, completed, elements, cmap, map_failed, filtered, forms, analysis>>

Filter ==
    /\ pc = "filter"
    /\ filtered' = _filter_elements(fields)
    /\ pc' = "group"
    /\ UNCHANGED <<call, output_file, log, completed, elements, cmap, map_failed, assignments, fields, forms, analysis>>

Group ==
    /\ pc = "group"
    /\ forms' = _group_into_forms(fields, filtered, _get_form_groups(map_failed, cmap))
    /\ pc' = "submit"
    /\ UNCHANGED <<call, output_file, log, completed, elements, cmap, map_failed, assignments, fields, filtered, analysis>>

Submit ==
    /\ pc = "submit"
    /\ \E outcome \in [DOMAIN forms -> SubmitOutcomes] :
           forms' = [k \in DOMAIN forms |-> IdentifySubmit(forms[k], outcome[k])]
    /\ pc' = "classify_fields"
    /\ UNCHANGED <<call, output_file, log, completed, elements, cmap, map_failed, assignments, fields, filtered, analysis>>

\* ClassifyFields with the form metadata computed before the fields of the
\* form are classified
ClassifyFields_aggregate_first ==
    /\ pc = "classify_fields"
    /\ fields' = ClassifiedHeap(fields, forms)
    /\ forms' = [k \in DOMAIN forms |->
                    [forms[k] EXCEPT !.has_required_fields =
                        \E j \in DOMAIN forms[k].fields :
                            fields[forms[k].fields[j]].classification = "required"]]
    /\ assignments' = ClassificationWrites(assignments, forms)
    /\ pc' = "classify_forms"
    /\ UNCHANGED <<call, output_file, log, completed, elements, cmap, map_failed, filtered, analysis>>

ClassifyFields ==
    /\ pc = "classify_fields"
    /\ fields' = ClassifiedHeap(fields, forms)
    /\ forms' = [k \in DOMAIN forms |->
                    [forms[k] EXCEPT !.has_required_fields =
                        \E j \in DOMAIN forms[k].fields :
                            fields'[forms[k].fields[j]].classification = "required"]]
    /\ assignments' = ClassificationWrites(assignments, forms)
    /\ pc' = "classify_forms"
    /\ UNCHANGED <<call, output_file, log, completed, elements, cmap, map_failed, filtered, analysis>>

\* ClassifyForms run in the place of the field-requirement stage
ClassifyForms_before_fields ==
    /\ pc = "classify_fields"
    /\ forms' = [k \in DOMAIN forms |->
                    [forms[k] EXCEPT !.form_purpose =
                        _detect_form_purpose(fields, forms[k])]]
    /\ pc' = "classify_page"
    /\ UNCHANGED <<call, output_file, log, completed, elements, cmap, map_failed, assignments, fields, filtered, analysis>>

ClassifyForms ==
    /\ pc = "classify_forms"
    /\ forms' = [k \in DOMAIN forms |->
                    [forms[k] EXCEPT !.form_purpose =
                        _detect_form_purpose(fields, forms[k])]]
    /\ pc' = "classify_page"
    /\ UNCHANGED <<call, output_file, log, completed, elements, cmap, map_failed, assignments, fields, filtered, analysis>>

ClassifyPage ==
    /\ pc = "classify_page"
    /\ analysis' = Some(PageAnalysis(_classify_page(forms), forms,
                                     total_fields(forms),
                                     total_required(fields, forms), Len(forms)))
    /\ pc' = "done"
    /\ UNCHANGED <<call, output_file, log, completed, elements, cmap, map_failed, assignments, fields, filtered, forms>>

Next ==
    \/ Normalize
    \/ Filter
    \/ Group
    \/ Submit
    \/ ClassifyFields
    \/ ClassifyForms
    \/ ClassifyPage

Spec == Init /\ [][Next]_vars

\* the same pipeline on pages made of whole forms
InitForms ==
    /\ pc = "normalize"
    /\ elements \in FormPages
    /\ cmap \in FormPageMaps
    /\ map_failed = FALSE
    /\ fields = <<>>
    /\ filtered = <<>>
    /\ forms = <<>>
    /\ analysis = None
    /\ assignments = <<>>
    /\ call = "attempt1"
    /\ output_file = None
    /\ log = <<>>
    /\ completed = <<>>

SpecForms == InitForms /\ [][Next]_vars

\* the same pipeline on pages of three elements outside any form
InitFields ==
    /\ pc = "normalize"
    /\ elements \in FieldPages
    /\ cmap = <<>>
    /\ map_failed = FALSE
    /\ fields = <<>>
    /\ filtered = <<>>
    /\ forms = <<>>
    /\ analysis = None
    /\ assignments = <<>>
    /\ call = "attempt1"
    /\ output_file = None
    /\ log = <<>>
    /\ completed = <<>>

SpecFields == InitFields /\ [][Next]_vars

\* the same pipeline on pages of one form outside any container of the map
InitPurpose ==
    /\ pc = "normalize"
    /\ elements \in PurposePages
    /\ cmap = <<>>
    /\ map_failed = FALSE
    /\ fields = <<>>
    /\ filtered = <<>>
    /\ forms = <<>>
    /\ analysis = None
    /\ assignments = <<>>
    /\ call = "attempt1"
    /\ output_file = None
    /\ log = <<>>
    /\ completed = <<>>

SpecPurpose == InitPurpose /\ [][Next]_vars

\* the same pipeline on pages of up to three forms of any kind
InitPageType ==
    /\ pc = "normalize"
    /\ elements \in SlotPages
    /\ cmap = <<>>
    /\ map_failed = FALSE
    /\ fields = <<>>
    /\ filtered = <<>>
    /\ forms = <<>>
    /\ analysis = None
    /\ assignments = <<>>
    /\ call = "attempt1"
    /\ output_file = None
    /\ log = <<>>
    /\ completed = <<>>

SpecPageType == InitPageType /\ [][Next]_vars

\* the same pipeline on pages of elements the filter decides on
InitFilter ==
    /\ pc = "normalize"
    /\ elements \in FilterPages
    /\ cmap = <<>>
    /\ map_failed = FALSE
    /\ fields = <<>>
    /\ filtered = <<>>
    /\ forms = <<>>
    /\ analysis = None
    /\ assignments = <<>>
    /\ call = "attempt1"
    /\ output_file = None
    /\ log = <<>>
    /\ completed = <<>>

SpecFilter == InitFilter /\ [][Next]_vars

\* the same pipeline on pages whose element reads fail
InitReads ==
    /\ pc = "normalize"
    /\ elements \in ReadPages
    /\ cmap \in {<<>>, <<LoginForm>>}
    /\ map_failed = FALSE
    /\ fields = <<>>
    /\ filtered = <<>>
    /\ forms = <<>>
    /\ analysis = None
    /\ assignments = <<>>
    /\ call = "attempt1"
    /\ output_file = None
    /\ log = <<>>
    /\ completed = <<>>

SpecReads == InitReads /\ [][Next]_vars

\* the same pipeline when the container-map query can raise
InitMapFailure ==
    /\ pc = "normalize"
    /\ elements \in MapFailurePages
    /\ cmap \in {<<>>, <<LoginForm>>, <<LoginForm, FiltersForm>>,
                 <<FiltersForm, LoginForm>>}
    /\ map_failed \in BOOLEAN
    /\ fields = <<>>
    /\ filtered = <<>>
    /\ forms = <<>>
    /\ analysis = None
    /\ assignments = <<>>
    /\ call = "attempt1"
    /\ output_file = None
    /\ log = <<>>
    /\ completed = <<>>

SpecMapFailure == InitMapFailure /\ [][Next]_vars

(***************************************************************************)
(* Properties                                                              *)
(***************************************************************************)
Grouped == pc \notin {"normalize", "filter", "group"}

Classified == pc \in {"classify_forms", "classify_page", "done"}

\* the number of forms that hold a reference to Field i
FormsHolding(i) == Cardinality({k \in DOMAIN forms : i \in Range(forms[k].fields)})

\* the positions (form, index) of all field references
Positions == UNION {{<<k, j>> : j \in DOMAIN forms[k].fields} : k \in DOMAIN forms}

\* C1: after grouping, every field of the filter output is in exactly one
\* emitted form (none in zero forms, none in two).
C1_TotalPartition ==
    Grouped => \A i \in Range(filtered) : FormsHolding(i) = 1

\* the containers of the map that Field i matches, by position in the map
MatchingContainers(i) ==
    {k \in DOMAIN cmap : MatchesContainer(fields[i], cmap[k])}

\* C2: a field that matches an explicit container is claimed by the first
\* container it matches only, and no field reference occurs twice, neither
\* within one form nor in two forms.
C2_FirstContainerOnly ==
    Grouped =>
        /\ \A i \in Range(filtered) : \A k \in DOMAIN forms :
              (MatchingContainers(i) # {} /\ i \in Range(forms[k].fields))
              => forms[k].container_selector =
                     cmap[CHOOSE m \in MatchingContainers(i) :
                             \A n \in MatchingContainers(i) : m <= n]
        /\ \A p, q \in Positions :
              forms[p[1]].fields[p[2]] = forms[q[1]].fields[q[2]] => p = q

\* the Field objects the forms refer to
FormFields == {fields[i] : i \in FormFieldRefs(forms)}

\* C3: after FieldClassifier.classify every field of every form is classified
\* required, optional or hidden, and a field of kind 'hidden' or that is not
\* visible is classified hidden whatever its other attributes.
C3_ClassificationRange ==
    Classified =>
        \A f \in FormFields :
            /\ f.classification \in {"required", "optional", "hidden"}
            /\ (f.input_type = "hidden" \/ ~f.visible) => f.classification = "hidden"

\* C3 witness: a classified form holds an invisible field that carries the
\* required flag and a required keyword, and a hidden-kind field
C3_Witness ==
    /\ Classified
    /\ \E f \in FormFields :
          ~f.visible /\ f.input_type # "hidden" /\ f.required
          /\ f.classification = "hidden"
    /\ \E f \in FormFields : f.input_type = "hidden"

HasPattern(f, patterns) ==
    \E pattern \in patterns :
        \/ Contains(pattern, lower(OrEmpty(f.name)))
        \/ Contains(pattern, lower(OrEmpty(f.id)))

Filtered == pc \notin {"normalize", "filter"}

\* C4: an enabled field of kind 'hidden' whose name or id holds a tracking
\* pattern is not in the filter output, also when its name or id holds an
\* important-hidden-token pattern.
C4_TrackingBeforeToken ==
    Filtered =>
        \A i \in DOMAIN fields :
            (/\ ~fields[i].disabled
             /\ fields[i].input_type = "hidden"
             /\ HasPattern(fields[i], REMOVE_TRACKING_PATTERNS))
            => i \notin Range(filtered)

\* C4 witness: the filter has run on a hidden field that holds both a tracking
\* and a token pattern
C4_Witness ==
    /\ Filtered
    /\ \E i \in DOMAIN fields :
          /\ ~fields[i].disabled
          /\ fields[i].input_type = "hidden"
          /\ HasPattern(fields[i], REMOVE_TRACKING_PATTERNS)
          /\ HasPattern(fields[i], KEEP_HIDDEN_PATTERNS)
          /\ i \notin Range(filtered)

\* C5: every emitted form has the id 'form_' followed by the first 8 hex
\* digits of the digest of its own container selector (13 characters), and of
\* nothing else, so forms with equal container selectors have equal ids.
C5_FormIdFromContainer ==
    Grouped =>
        \A k \in DOMAIN forms :
            /\ forms[k].form_id =
                   "form_" \o hexdigest(md5(forms[k].container_selector), 8)
            /\ Len(forms[k].form_id) = 13

\* C5 witness: grouping emitted a form for an explicit container and a form
\* for a container bucket
C5_Witness ==
    /\ Grouped
    /\ \E k, n \in DOMAIN forms :
          /\ forms[k].form_tag_selector # None
          /\ forms[n].form_tag_selector = None
          /\ forms[n].container_selector = Body

Done == pc = "done"

\* the purposes of the forms
Purposes == {forms[k].form_purpose : k \in DOMAIN forms}

\* C6 as stated: for a non-empty form list the page type is 'mixed' exactly
\* when the purposes include both login and search, and login with one other
\* purpose that is not search gives 'login'.
C6_MixedIffLoginAndSearch ==
    (Done /\ forms # <<>>) =>
        /\ analysis[1].page_type = "mixed"
           <=> ("login" \in Purposes /\ "search" \in Purposes)
        /\ ("login" \in Purposes /\ "search" \notin Purposes
            /\ Cardinality(Purposes) = 2)
           => analysis[1].page_type = "login"

\* C6 amended: the page type is 'mixed' when the purposes include both login
\* and search; besides that only when every form has purpose 'mixed', or the
\* forms have several purposes none of which is login, signup, search or
\* listing.  Login with one other purpose that is not search gives 'login'.
C6_MixedCases ==
    (Done /\ forms # <<>>) =>
        /\ analysis[1].page_type = "mixed"
           <=> \/ ("login" \in Purposes /\ "search" \in Purposes)
               \/ Purposes = {"mixed"}
               \/ /\ Cardinality(Purposes) >= 2
                  /\ Purposes \cap {"login", "signup", "search", "listing"} = {}
        /\ ("login" \in Purposes /\ "search" \notin Purposes
            /\ Cardinality(Purposes) = 2)
           => analysis[1].page_type = "login"

\* C6 witness: a page with a login form and a search form was typed 'mixed'
C6_Witness ==
    /\ Done
    /\ "login" \in Purposes /\ "search" \in Purposes
    /\ analysis[1].page_type = "mixed"

\* C7: in the PageAnalysis total_fields is the sum of the forms' field counts,
\* total_required the number of fields classified required over all forms,
\* total_forms the number of forms.
C7_Totals ==
    Done =>
        /\ analysis[1].total_fields = Cardinality(Positions)
        /\ analysis[1].total_required =
               Cardinality({p \in Positions :
                   fields[forms[p[1]].fields[p[2]]].classification = "required"})
        /\ analysis[1].total_forms = Len(forms)
        /\ analysis[1].forms = forms

\* C7 witness: an analysis of several forms that hold required fields and
\* fields that are not required
C7_Witness ==
    /\ Done
    /\ Len(forms) >= 2
    /\ analysis[1].total_required >= 1
    /\ analysis[1].total_fields > analysis[1].total_required

\* Scenario A: the page of the test, its form in the container map
ScenarioA ==
    /\ elements = <<EmailInput, PasswordInput, SubmitButton>>
    /\ LoginForm \in Range(cmap)

\* C8: on the page of scenario A the email, password and submit elements
\* survive extraction and filtering, and the pipeline gives one form holding
\* the email and password fields, purpose login, both fields required, page
\* type login.
C8_ScenarioA ==
    ScenarioA =>
        /\ Filtered =>
              /\ Len(fields) = 3
              /\ filtered = <<1, 2, 3>>
              /\ fields[1].input_type = "email"
              /\ fields[2].input_type = "password"
              /\ is_submit(fields[3])
        /\ Done =>
              /\ Len(forms) = 1
              /\ forms[1].fields = <<1, 2>>
              /\ forms[1].form_purpose = "login"
              /\ fields[1].classification = "required"
              /\ fields[2].classification = "required"
              /\ analysis[1].page_type = "login"
              /\ analysis[1].total_forms = 1

C8_Witness == ScenarioA /\ Done /\ forms[1].form_tag_selector = Some(LoginForm)

\* Scenario C: a form with two dropdowns, and a form with a disabled button
\* and the hidden csrf_token
ScenarioC == elements = <<CsrfToken, DisabledButton, CountrySelect, SortSelect>>

\* C9: on the page of scenario C the disabled button is not in the filter
\* output, the csrf_token field is in a form and classified hidden, the form
\* of the dropdowns has purpose listing and the page type is listing.
C9_ScenarioC ==
    ScenarioC =>
        /\ Filtered => filtered = <<1, 3, 4>>
        /\ Done =>
              /\ fields[2].disabled /\ 2 \notin Range(filtered)
              /\ fields[1].name = Some("csrf_token")
              /\ FormsHolding(1) >= 1
              /\ fields[1].classification = "hidden"
              /\ \E k \in DOMAIN forms :
                    /\ forms[k].fields = <<3, 4>>
                    /\ forms[k].form_purpose = "listing"
              /\ analysis[1].page_type = "listing"

C9_Witness == ScenarioC /\ Done /\ Len(forms) = 2

\* Scenario B: one visible text input outside any form, empty container map
ScenarioB == elements = <<SearchBox>> /\ cmap = <<>>

\* C10: on the page of scenario B the pipeline gives exactly one form, not
\* taken from an explicit container, with container 'body', holding the
\* field; its purpose is search and the field, which carries no required
\* signal, is classified optional.
C10_ScenarioB ==
    (ScenarioB /\ Done) =>
        /\ Len(forms) = 1
        /\ forms[1].container_selector = "body"
        /\ forms[1].form_tag_selector = None
        /\ forms[1].fields = <<1>>
        /\ forms[1].form_purpose = "search"
        /\ fields[1].classification = "optional"

C10_Witness ==
    /\ ScenarioB /\ Done
    /\ fields[1].visible /\ fields[1].input_type = "text" /\ ~fields[1].required
    /\ analysis[1].total_fields = 1

\* the rules of the field classification, in their order, with their outcomes
C11_Rules(f) ==
    LET name_lower == lower(OrEmpty(f.name))
        id_lower == lower(OrEmpty(f.id))
        label_lower == lower(get_label(f))
        placeholder == OrEmpty(f.placeholder)
        placeholder_lower == lower(placeholder)
    IN  <<<<f.input_type = "hidden" \/ ~f.visible, "hidden">>,
          <<f.required, "required">>,
          <<f.input_type = "password", "required">>,
          <<\E pattern \in REQUIRED_FIELD_PATTERNS :
                \/ Contains(pattern, name_lower)
                \/ Contains(pattern, id_lower)
                \/ Contains(pattern, label_lower), "required">>,
          <<f.input_type = "email", "required">>,
          <<f.input_type \in {"checkbox", "radio"}, "optional">>,
          <<f.tag_name = "select", "optional">>,
          <<Contains("optional", placeholder_lower), "optional">>,
          <<Contains("required", placeholder_lower) \/ Contains("*", placeholder),
            "required">>,
          <<TRUE, "optional">>>>

\* the outcome of the first rule that matches
C11_FirstMatch(f) ==
    LET rules == C11_Rules(f)
        first == CHOOSE k \in DOMAIN rules :
                     rules[k][1] /\ \A j \in 1..(k - 1) : ~rules[j][1]
    IN  rules[first][2]

\* C11: every classified field carries the outcome of the first matching rule
\* in the order hidden kind or not visible, required flag, password kind,
\* required keyword in name, id or label, email kind, checkbox or radio,
\* select tag, placeholder 'optional', placeholder 'required' or '*',
\* otherwise optional; an earlier rule beats a later one.
C11_FirstMatchingRule ==
    Classified => \A f \in FormFields : f.classification = C11_FirstMatch(f)

\* C11 witness: a form holds a checkbox with the required flag and a dropdown
\* with a required keyword, both classified required, and a text input whose
\* placeholder holds 'optional' and '*', classified optional
C11_Witness ==
    /\ Classified
    /\ \E f \in FormFields :
          f.input_type = "checkbox" /\ f.required /\ f.classification = "required"
    /\ \E f \in FormFields :
          /\ f.tag_name = "select" /\ ~f.required
          /\ Contains("user", lower(OrEmpty(f.name)))
          /\ f.classification = "required"
    /\ \E f \in FormFields :
          /\ f.placeholder = Some("optional *")
          /\ f.classification = "optional"

PurposeSet == pc \in {"classify_page", "done"}

\* the visible Field objects of form k
VisibleFields(k) ==
    {fields[i] : i \in {j \in Range(forms[k].fields) : fields[j].visible}}

\* the number of visible field references of form k that satisfy P
VisibleCount(k, P(_)) ==
    Cardinality({j \in DOMAIN forms[k].fields :
        fields[forms[k].fields[j]].visible /\ P(fields[forms[k].fields[j]])})

IsEmailField(f) ==
    \/ f.input_type = "email"
    \/ Contains("email", lower(OrEmpty(f.name)))
    \/ Contains("email", lower(OrEmpty(f.id)))

IsSelect(f) == f.tag_name = "select"

AnyField(f) == TRUE

\* the heuristics of the purpose classification over the visible fields of
\* form k, in their order, with their outcomes
C12_Heuristics(k) ==
    LET visible == VisibleFields(k)
        passwords == VisibleCount(k, is_password)
        has_email == \E f \in visible : IsEmailField(f)
    IN  <<<<passwords = 1
            /\ (has_email
                \/ \E f \in visible : Contains("user", lower(OrEmpty(f.name)))),
            "login">>,
          <<has_email /\ passwords >= 2, "signup">>,
          <<VisibleCount(k, AnyField) = 1
            /\ \A f \in visible : f.input_type \in {"text", "search"}, "search">>,
          <<\E f \in visible :
                \/ Contains("search", lower(OrEmpty(f.name)))
                \/ Contains("search", lower(OrEmpty(f.placeholder)))
                \/ f.input_type = "search", "search">>,
          <<VisibleCount(k, IsSelect) >= 2, "listing">>,
          <<VisibleCount(k, AnyField) > 5, "mixed">>,
          <<TRUE, "unknown">>>>

C12_FirstMatch(k) ==
    LET rules == C12_Heuristics(k)
        first == CHOOSE n \in DOMAIN rules :
                     rules[n][1] /\ \A j \in 1..(n - 1) : ~rules[j][1]
    IN  rules[first][2]

\* C12: every form's purpose is the outcome of the first matching heuristic
\* evaluated over the form's visible fields: exactly one password field and
\* (an email field or a name containing 'user') -> login; an email field and
\* at least two password fields -> signup; exactly one visible field of
\* text/search kind -> search; a name or placeholder containing 'search' or
\* a search kind -> search; at least two selects -> listing; more than 5
\* visible fields -> mixed; otherwise unknown.
C12_PurposeOverVisibleFields ==
    PurposeSet => \A k \in DOMAIN forms : forms[k].form_purpose = C12_FirstMatch(k)

\* the page type as a function of a set of purposes
C13_PageType(S) ==
    IF S = {} THEN "unknown"
    ELSE IF \E p \in S : S = {p} THEN CHOOSE p \in S : TRUE
    ELSE IF {"login", "search"} \subseteq S THEN "mixed"
    ELSE IF \E p \in {"login", "signup", "search", "listing"} : p \in S
    THEN LET order == <<"login", "signup", "search", "listing">>
             first == CHOOSE k \in DOMAIN order :
                          order[k] \in S /\ \A j \in 1..(k - 1) : order[j] \notin S
         IN  order[first]
    ELSE "mixed"

\* C13: the page type is a function of the set of the forms' purposes only,
\* whatever their order and multiplicity: no forms -> unknown; one shared
\* purpose -> that purpose; otherwise login and search -> mixed, else login,
\* else signup, else search, else listing, else mixed.
C13_PageTypeOfPurposeSet ==
    Done => analysis[1].page_type = C13_PageType(Purposes)

\* C13 witness: three forms, two of them with the same purpose around a third
\* with another, typed by the precedence of the purposes and not by their
\* order or number
C13_Witness ==
    /\ Done
    /\ Len(forms) = 3
    /\ forms[1].form_purpose = "listing"
    /\ forms[2].form_purpose = "signup"
    /\ forms[3].form_purpose = "listing"
    /\ analysis[1].page_type = "signup"

\* the elements whose read succeeded, in document order
Readable == SelectSeq(elements, LAMBDA el : el.readOk)

\* the fields the filter has to keep
C14_Kept ==
    {i \in DOMAIN fields :
        /\ ~fields[i].disabled
        /\ ~HasPattern(fields[i], REMOVE_TRACKING_PATTERNS)
        /\ \/ fields[i].input_type # "hidden"
           \/ HasPattern(fields[i], KEEP_HIDDEN_PATTERNS)}

\* C14: the filter output is exactly the subsequence, in the input's order,
\* of the fields that are not disabled, have no tracking pattern in name or
\* id, and are not of kind 'hidden' or have a token pattern in name or id;
\* the surviving Fields are those of the input, unchanged.
C14_FilterSubsequence ==
    Filtered =>
        /\ Range(filtered) = C14_Kept
        /\ \A j, k \in DOMAIN filtered : j < k => filtered[j] < filtered[k]
        /\ pc = "group" =>
              \A i \in DOMAIN fields : fields[i] = NormalizeElement(Readable[i])

\* C14 witness: the filter dropped a hidden field without token pattern
\* between two survivors, one of them a hidden token
C14_Witness ==
    /\ pc = "group"
    /\ Len(fields) = 3
    /\ filtered = <<1, 2>>
    /\ fields[1].input_type = "hidden" /\ fields[2].input_type = "email"
    /\ fields[3].input_type = "hidden" /\ ~fields[3].disabled
    /\ ~HasPattern(fields[3], REMOVE_TRACKING_PATTERNS)

\* the classifications of the fields of form k
ClassificationsOf(k) ==
    {fields[forms[k].fields[j]].classification : j \in DOMAIN forms[k].fields}

\* C15: after the field classification a form has has_required_fields set
\* exactly when at least one of its fields is classified required.
C15_HasRequiredFields ==
    Classified =>
        \A k \in DOMAIN forms :
            forms[k].has_required_fields <=> "required" \in ClassificationsOf(k)

\* C15 witness: a form with a required field has the flag, and a form whose
\* fields are all optional or hidden has not
C15_Witness ==
    /\ Classified
    /\ \E k, n \in DOMAIN forms :
          /\ forms[k].has_required_fields
          /\ "required" \in ClassificationsOf(k)
          /\ ~forms[n].has_required_fields
          /\ ClassificationsOf(n) # {}
          /\ ClassificationsOf(n) \subseteq {"optional", "hidden"}

Normalized == pc # "normalize"

\* an element one of whose reads fails
ReadFails(el) == ~el.readOk \/ el.failing # {}

\* C16: after normalization exactly the elements with a failing read are
\* absent from the Field list: every other element has exactly one Field, and
\* the Fields are in the order of the elements.
C16_ExactlyFailingAbsent ==
    Normalized =>
        LET rest == SelectSeq(elements, LAMBDA el : ~ReadFails(el))
        IN  /\ Len(fields) = Len(rest)
            /\ \A i \in DOMAIN fields :
                  /\ fields[i].name = OrNone(rest[i].name)
                  /\ fields[i].tag_name = rest[i].tagName

SubmitDone == pc \notin {"normalize", "filter", "group", "submit"}

\* C17: after submission detection every form is in exactly one of three
\* conditions: submit element set and no note; submit element unset and the
\* one note 'No explicit submit button found'; submit element unset and the
\* one note 'Submit detection failed'.  Every form of the list has been
\* processed, whatever happened on the forms before it.
C17_SubmitOutcome ==
    SubmitDone =>
        \A k \in DOMAIN forms :
            \/ forms[k].submit_element # None /\ forms[k].notes = <<>>
            \/ /\ forms[k].submit_element = None
               /\ forms[k].notes = <<"No explicit submit button found">>
            \/ /\ forms[k].submit_element = None
               /\ forms[k].notes = <<"Submit detection failed">>

\* C17 witness: the query failed on the first form, found a submit element
\* for the second and matched nothing on the third
C17_Witness ==
    /\ SubmitDone
    /\ Len(forms) = 3
    /\ forms[1].notes = <<"Submit detection failed">>
    /\ forms[2].submit_element = Some(SubmitInfo)
    /\ forms[3].notes = <<"No explicit submit button found">>

\* the non-submit fields of the filter output
InputFields == SelectSeq(filtered, LAMBDA i : ~is_submit(fields[i]))

\* the containers captured for the non-submit fields
CapturedContainers == {fields[i].parent_container : i \in Range(InputFields)}

\* C18: when the container-map query fails the pipeline goes on and groups
\* as with an empty map: one form per distinct captured container value of
\* the non-submit fields, none taken from an explicit container, each
\* holding exactly the non-submit fields of its container; this for every
\* outcome of the submit queries.
C18_MapFailureAsEmptyMap ==
    (Grouped /\ map_failed) =>
        /\ Len(forms) = Cardinality(CapturedContainers)
        /\ {forms[k].container_selector : k \in DOMAIN forms} = CapturedContainers
        /\ \A k \in DOMAIN forms :
              /\ forms[k].form_tag_selector = None
              /\ forms[k].fields =
                     SelectSeq(InputFields,
                               LAMBDA i : fields[i].parent_container =
                                              forms[k].container_selector)

\* C18 witness: the page has two forms the query would have listed and a
\* field outside them, the container-map query failed and so did a submit
\* query, and the analysis was completed with three forms
C18_Witness ==
    /\ Done /\ map_failed
    /\ Len(cmap) = 2
    /\ Len(forms) = 3
    /\ \E k \in DOMAIN forms : forms[k].notes = <<"Submit detection failed">>
    /\ \E i \in Range(filtered) : is_submit(fields[i])

\* an optional attribute of a Field holds the element's value, absent when
\* the value is empty
SameOrAbsent(attribute, value) ==
    IF value = "" THEN attribute = None ELSE attribute = Some(value)

\* C19: the Fields are those of the elements whose read succeeded, with tag,
\* input type, name, id, placeholder, aria-label and required flag equal to
\* the element's values (an empty name, id, placeholder or aria-label is
\* absent); and a page with exactly one element, read successfully, enabled,
\* not tracking and not of kind hidden, gives exactly one Field after the
\* filter.
C19_FieldEqualsElement ==
    /\ Normalized =>
          /\ Len(fields) = Len(Readable)
          /\ \A i \in DOMAIN fields :
                LET el == Readable[i]
                IN  /\ fields[i].tag_name = el.tagName
                    /\ fields[i].input_type = el.type
                    /\ SameOrAbsent(fields[i].name, el.name)
                    /\ SameOrAbsent(fields[i].id, el.id)
                    /\ SameOrAbsent(fields[i].placeholder, el.placeholder)
                    /\ SameOrAbsent(fields[i].aria_label, el.ariaLabel)
                    /\ fields[i].required = el.required
    /\ (/\ Filtered
        /\ Len(elements) = 1
        /\ elements[1].readOk
        /\ ~elements[1].disabled
        /\ elements[1].type # "hidden"
        /\ \A pattern \in REMOVE_TRACKING_PATTERNS :
              /\ ~Contains(pattern, lower(elements[1].name))
              /\ ~Contains(pattern, lower(elements[1].id)))
       => Len(filtered) = 1 /\ Len(fields) = 1

\* C19 witness: the page of the normalization test was analyzed and gave the
\* one Field the test expects
C19_Witness ==
    /\ Filtered
    /\ elements = <<UsernameInput>>
    /\ filtered = <<1>>
    /\ fields[1].tag_name = "input" /\ fields[1].input_type = "text"
    /\ fields[1].name = Some("username") /\ fields[1].id = Some("username")
    /\ fields[1].placeholder = Some("Enter username")
    /\ fields[1].aria_label = Some("Username")
    /\ fields[1].required

\* C21: no form emitted by grouping holds a submit-typed field (input kind
\* 'submit' or tag 'button'), whatever the filter output and the container
\* map.
C21_NoSubmitInForms ==
    Grouped =>
        \A k \in DOMAIN forms : \A j \in DOMAIN forms[k].fields :
            /\ fields[forms[k].fields[j]].input_type # "submit"
            /\ fields[forms[k].fields[j]].tag_name # "button"

\* C21 witness: a submit button survived the filter, and grouping emitted a
\* form for the button's own container from the other fields
C21_Witness ==
    /\ Grouped
    /\ \E i \in Range(filtered) :
          /\ fields[i].input_type = "submit"
          /\ \E k \in DOMAIN forms :
                /\ forms[k].container_selector = fields[i].parent_container
                /\ forms[k].form_tag_selector # None

HasKeyword(text) ==
    LET text_lower == lower(text)
    IN  \E pattern \in REQUIRED_FIELD_PATTERNS : Contains(pattern, text_lower)

\* a visible text input without required flag, without required keyword in
\* name, id and resolved label, and without hint in its placeholder
C22_PlainTextField(f) ==
    /\ f.visible /\ ~f.required
    /\ f.tag_name = "input" /\ f.input_type = "text"
    /\ ~HasKeyword(OrEmpty(f.name)) /\ ~HasKeyword(OrEmpty(f.id))
    /\ ~HasKeyword(OrEmpty(f.label_text))
    /\ ~Contains("optional", lower(OrEmpty(f.placeholder)))
    /\ ~Contains("required", lower(OrEmpty(f.placeholder)))
    /\ ~Contains("*", OrEmpty(f.placeholder))

\* C22 as stated: such a field is classified optional whatever else its
\* placeholder and its aria-label hold.
C22_KeywordsInNameIdLabelOnly ==
    Classified =>
        \A f \in FormFields : C22_PlainTextField(f) => f.classification = "optional"

\* the text that stands for the label when it is matched: the resolved label,
\* else the placeholder, else the aria-label
C22_MatchedText(f) ==
    IF OrEmpty(f.label_text) # "" THEN f.label_text[1]
    ELSE IF OrEmpty(f.placeholder) # "" THEN f.placeholder[1]
    ELSE OrEmpty(f.aria_label)

\* C22 amended: such a field is classified required when it has no resolved
\* label and its placeholder holds a required keyword, or has neither and its
\* aria-label holds one; otherwise it is classified optional, whatever the
\* placeholder and the aria-label hold.
C22_KeywordsInFallbackLabel ==
    Classified =>
        \A f \in FormFields :
            C22_PlainTextField(f) =>
                f.classification =
                    IF HasKeyword(C22_MatchedText(f)) THEN "required" ELSE "optional"

\* C22 witness: a field with a resolved label and a keyword in its
\* placeholder is classified optional
C22_Witness ==
    /\ Classified
    /\ \E f \in FormFields :
          /\ C22_PlainTextField(f)
          /\ f.label_text # None
          /\ HasKeyword(OrEmpty(f.placeholder))
          /\ f.classification = "optional"

\* form k without its fields that are not visible
VisiblePart(k) == [forms[k] EXCEPT !.fields = get_visible_fields(fields, forms[k])]

\* C23: the purpose of a form is the purpose of the form that has the same
\* visible fields and no other field: the fields that are not visible do not
\* change it.
C23_PurposeByVisibleFieldsAlone ==
    PurposeSet =>
        \A k \in DOMAIN forms :
            forms[k].form_purpose = _detect_form_purpose(fields, VisiblePart(k))

\* C24: after extraction no attribute of a Field other than classification
\* changes, and the classification of every Field a form holds is assigned
\* exactly once, by the field-requirement stage and by no stage before it.
C24_ClassificationAssignedOnce ==
    /\ Normalized =>
          \A i \in DOMAIN fields :
              [fields[i] EXCEPT !.classification = "unknown"]
                  = NormalizeElement(Readable[i])
    /\ (Normalized /\ ~Classified) =>
          \A i \in DOMAIN fields :
              assignments[i] = 0 /\ fields[i].classification = "unknown"
    /\ Classified => \A i \in FormFieldRefs(forms) : assignments[i] = 1

\* the stages of a run, in order, as the values of pc before each of them
Stages ==
    <<"normalize", "filter", "group", "submit", "classify_fields",
      "classify_forms", "classify_page", "done">>

StageOf(p) == CHOOSE n \in DOMAIN Stages : Stages[n] = p

\* what is not yet there while the stages from number n on have not run
NotYet(n) ==
    /\ n <= 1 => fields = <<>>
    /\ n <= 2 => filtered = <<>>
    /\ n <= 3 => forms = <<>>
    /\ n <= 4 => \A k \in DOMAIN forms :
                    forms[k].submit_element = None /\ forms[k].notes = <<>>
    /\ n <= 5 => /\ \A i \in DOMAIN fields : fields[i].classification = "unknown"
                 /\ \A k \in DOMAIN forms : ~forms[k].has_required_fields
    /\ n <= 6 => \A k \in DOMAIN forms : forms[k].form_purpose = "unknown"
    /\ n <= 7 => analysis = None

\* what is complete once the stages before number n have run
Complete(n) ==
    /\ n > 1 => Len(fields) = Len(Readable)
    /\ n > 4 => \A k \in DOMAIN forms :
                    forms[k].submit_element # None \/ forms[k].notes # <<>>
    /\ n > 5 => \A i \in FormFieldRefs(forms) : fields[i].classification # "unknown"
    /\ n > 7 => /\ analysis # None
                /\ analysis[1].forms = forms
                /\ analysis[1].page_type = _classify_page(forms)

\* C25: every step of a run is the next stage in the order normalization,
\* filter, grouping, submission detection, field requirement classification,
\* purpose classification, page aggregation; a stage starts with the whole
\* output of the stages before it and nothing of the later ones, and the
\* page result is made after every field of a form has its classification.
C25_StageOrder ==
    [][/\ StageOf(pc') = StageOf(pc) + 1
       /\ NotYet(StageOf(pc)) /\ Complete(StageOf(pc))
       /\ NotYet(StageOf(pc))' /\ Complete(StageOf(pc))']_vars

\* C25 witness: a run ended with a page result for two forms, one of them
\* with a purpose and required fields
C25_Witness ==
    /\ Done /\ analysis # None
    /\ Len(forms) = 2
    /\ forms[1].form_purpose = "login" /\ forms[1].has_required_fields
    /\ \A i \in FormFieldRefs(forms) : fields[i].classification # "unknown"

\* C26: whenever the filter output holds a non-submit field, grouping emits
\* a form of tier 1 (taken from the container map) or of tier 2 (a container
\* bucket, with the id made from its container), so that no form has the id
\* 'default_form'.
C26_NoDefaultForm ==
    Grouped =>
        /\ InputFields # <<>> => forms # <<>>
        /\ \A k \in DOMAIN forms :
              /\ forms[k].form_id # "default_form"
              /\ \/ /\ forms[k].form_tag_selector # None
                    /\ forms[k].container_selector \in Range(cmap)
                 \/ /\ forms[k].form_tag_selector = None
                    /\ \A j \in DOMAIN forms[k].fields :
                          fields[forms[k].fields[j]].parent_container
                              = forms[k].container_selector

\* C26 witness: the container map is empty and the only non-submit field is
\* outside any form, and the one form comes from the bucket of 'body'
C26_Witness ==
    /\ Grouped
    /\ cmap = <<>>
    /\ Len(InputFields) = 1
    /\ fields[InputFields[1]].parent_container = Body
    /\ Len(forms) = 1
    /\ forms[1].form_id = _generate_form_id(Body)

\* C27: the forms of one grouping have pairwise distinct container
\* selectors, no bucket form has the selector of a container of the map, and
\* forms whose selectors have different digests have different ids.
C27_DistinctContainers ==
    Grouped =>
        /\ \A k, n \in DOMAIN forms :
              k # n =>
                  /\ forms[k].container_selector # forms[n].container_selector
                  /\ hexdigest(md5(forms[k].container_selector), DigestLen)
                         # hexdigest(md5(forms[n].container_selector), DigestLen)
                     => forms[k].form_id # forms[n].form_id
        /\ \A k \in DOMAIN forms :
              forms[k].form_tag_selector = None
              => forms[k].container_selector \notin Range(cmap)

\* C27 witness: grouping emitted two forms for containers of the map and a
\* bucket form, with three different ids
C27_Witness ==
    /\ Grouped
    /\ Len(forms) = 3
    /\ forms[1].form_tag_selector # None /\ forms[2].form_tag_selector # None
    /\ forms[3].form_tag_selector = None
    /\ Cardinality({forms[k].form_id : k \in DOMAIN forms}) = 3

\* the submit-typed fields that survived filtering
SubmitFields ==
    SelectSeq(filtered, LAMBDA i : fields[i].input_type = "submit")

\* C28: in the page analysis, total_fields is the number of non-submit fields
\* of the filter output; a submit-typed field of the filter output is in no
\* form and keeps the classification "unknown".
C28_TotalFieldsCountsInputFields ==
    Done =>
        /\ analysis[1].total_fields = Len(InputFields)
        /\ \A j \in DOMAIN SubmitFields :
              /\ FormsHolding(SubmitFields[j]) = 0
              /\ fields[SubmitFields[j]].classification = "unknown"

\* C29: in the page analysis, every form with purpose "login" or "signup"
\* has has_required_fields set.
C29_LoginAndSignupHaveRequiredFields ==
    Done =>
        \A k \in DOMAIN analysis[1].forms :
            analysis[1].forms[k].form_purpose \in {"login", "signup"}
            => analysis[1].forms[k].has_required_fields

\* C29 witness: a login form whose only required field is its visible
\* password input, which no name, id or label keyword makes required
C29_Witness ==
    /\ Done
    /\ forms # <<>>
    /\ analysis[1].forms[1].form_purpose = "login"
    /\ analysis[1].forms[1].has_required_fields
    /\ \A j \in DOMAIN forms[1].fields :
          LET f == fields[forms[1].fields[j]]
          IN  f.classification = "required"
              => /\ f.input_type = "password" /\ f.visible
                 /\ f.name = Some("secret")

(***************************************************************************)
(* analyze_website of main.py: a first run of the pipeline and, when it    *)
(* found no field, a second run with the cookies of the bypass step        *)
(***************************************************************************)
\* the pages a site serves, before or after the bypass: an empty document, a
\* challenge page with one button, a search box, a login form
AnalyzePages ==
    {<<>>,
     <<Plain("button", "submit", "verify", TRUE)>>,
     <<Plain("input", "text", "q", TRUE)>>,
     FormOf("login", LoginForm)}

\* the exceptions of the bypass step, of the launch and load of the second
\* run, and of the cleanup of its browser
Errors == {"TimeoutError", "TargetClosedError"}

BypassFailedNote(e) == "Cloudflare bypass failed: " \o e

BypassNote == "Analyzed with Cloudflare bypass"

\* analysis.notes.append(note)
WithNote(a, note) == [a EXCEPT !.notes = Append(@, note)]

InitAnalyze ==
    /\ pc = "normalize"
    /\ elements \in AnalyzePages
    /\ cmap \in {<<>>, <<LoginForm>>}
    /\ map_failed = FALSE
    /\ fields = <<>>
    /\ filtered = <<>>
    /\ forms = <<>>
    /\ analysis = None
    /\ assignments = <<>>
    /\ call = "attempt1"
    /\ output_file \in {None, Some("analysis.json")}
    /\ log = <<"Attempt 1: Standard Analysis">>
    /\ completed = <<>>

\* the launch of the browser, new_page or PageLoader.load of the first run
\* raises: the exception reaches the outer handler, which re-raises it
Attempt1Fails ==
    /\ call = "attempt1"
    /\ pc = "normalize"
    /\ pc' = "failed"
    /\ call' = "raised"
    /\ log' = Append(log, "Analysis failed")
    /\ UNCHANGED <<output_file, completed, elements, cmap, map_failed, fields,
                   filtered, forms, analysis, assignments>>

\* the first run returns its analysis and the browser is closed; an exception
\* of the cleanup reaches the outer handler
Attempt1Returns ==
    /\ call = "attempt1"
    /\ pc = "done"
    /\ completed' = Append(completed, analysis[1])
    /\ \/ /\ call' = "check"
          /\ log' = log
       \/ /\ call' = "raised"
          /\ log' = Append(log, "Analysis failed")
    /\ UNCHANGED <<pc, output_file, elements, cmap, map_failed, fields, filtered,
                   forms, analysis, assignments>>

\* the bypass regardless of the number of fields
CheckFields_always_bypass ==
    /\ call = "check"
    /\ call' = "bypass"
    /\ log' = Append(log, "No fields found. Suspecting bot protection.")
    /\ UNCHANGED <<pc, output_file, completed, elements, cmap, map_failed, fields,
                   filtered, forms, analysis, assignments>>

\* `if analysis and analysis.total_fields == 0`
CheckFields ==
    /\ call = "check"
    /\ IF analysis # None /\ analysis[1].total_fields = 0
       THEN /\ call' = "bypass"
            /\ log' = Append(log, "No fields found. Suspecting bot protection.")
       ELSE /\ call' = "output"
            /\ log' = log
    /\ UNCHANGED <<pc, output_file, completed, elements, cmap, map_failed, fields,
                   filtered, forms, analysis, assignments>>

\* get_cf_cookies returns and the second run starts on the page the site now
\* serves, or get_cf_cookies raises and the handler appends its note
GetCookies ==
    /\ call = "bypass"
    /\ \/ /\ call' = "attempt2"
          /\ log' = log \o <<"Cloudflare cookies retrieved",
                             "Attempt 2: Analysis with Cloudflare Cookies">>
          /\ pc' = "normalize"
          /\ elements' \in AnalyzePages
          /\ cmap' \in {<<>>, <<LoginForm>>}
          /\ fields' = <<>>
          /\ filtered' = <<>>
          /\ forms' = <<>>
          /\ assignments' = <<>>
          /\ UNCHANGED analysis
       \/ /\ \E e \in Errors :
                /\ analysis' = Some(WithNote(analysis[1], BypassFailedNote(e)))
                /\ log' = Append(log, BypassFailedNote(e))
          /\ call' = "output"
          /\ UNCHANGED <<pc, elements, cmap, fields, filtered, forms, assignments>>
    /\ UNCHANGED <<output_file, completed, map_failed>>

\* the launch of the browser, new_page or PageLoader.load of the second run
\* raises: `analysis` still is the first run's, and the handler appends its note
Attempt2Fails ==
    /\ call = "attempt2"
    /\ pc = "normalize"
    /\ pc' = "failed"
    /\ \E e \in Errors :
          /\ analysis' = Some(WithNote(analysis[1], BypassFailedNote(e)))
          /\ log' = Append(log, BypassFailedNote(e))
    /\ call' = "output"
    /\ UNCHANGED <<output_file, completed, elements, cmap, map_failed, fields,
                   filtered, forms, assignments>>

\* the second run returns its analysis, which gets the bypass note; an
\* exception of the cleanup of the browser is caught by the same handler
Attempt2Returns ==
    /\ call = "attempt2"
    /\ pc = "done"
    /\ completed' = Append(completed, analysis[1])
    /\ \/ /\ analysis' = Some(WithNote(analysis[1], BypassNote))
          /\ log' = log
       \/ \E e \in Errors :
             /\ analysis' = Some(WithNote(WithNote(analysis[1], BypassNote),
                                          BypassFailedNote(e)))
             /\ log' = Append(log, BypassFailedNote(e))
    /\ call' = "output"
    /\ UNCHANGED <<pc, output_file, elements, cmap, map_failed, fields, filtered,
                   forms, assignments>>

\* the summary and the JSON are printed and the analysis is returned; with an
\* output file, save_to_file writes it or raises
Output ==
    /\ call = "output"
    /\ \/ /\ call' = "returned"
          /\ log' = IF output_file # None
                    THEN log \o <<"Analysis saved to: " \o output_file[1],
                                  "Analysis complete">>
                    ELSE Append(log, "Analysis complete")
       \/ /\ output_file # None
          /\ call' = "raised"
          /\ log' = Append(log, "Analysis failed")
    /\ UNCHANGED <<pc, output_file, completed, elements, cmap, map_failed, fields,
                   filtered, forms, analysis, assignments>>

NextAnalyze ==
    \/ Normalize
    \/ Filter
    \/ Group
    \/ Submit
    \/ ClassifyFields
    \/ ClassifyForms
    \/ ClassifyPage
    \/ Attempt1Fails
    \/ Attempt1Returns
    \/ CheckFields
    \/ GetCookies
    \/ Attempt2Fails
    \/ Attempt2Returns
    \/ Output

SpecAnalyze == InitAnalyze /\ [][NextAnalyze]_vars

\* the pipeline runs started so far, as logged
Runs ==
    Len(SelectSeq(log, LAMBDA m : m \in {"Attempt 1: Standard Analysis",
                                         "Attempt 2: Analysis with Cloudflare Cookies"}))

SecondRunStarted == "Attempt 2: Analysis with Cloudflare Cookies" \in Range(log)

IsBypassFailedNote(n) == Contains("Cloudflare bypass failed", n)

\* the bypass step or the second run raised: the failure was logged and no
\* second run returned an analysis
BypassFailed ==
    /\ \E i \in DOMAIN log : IsBypassFailedNote(log[i])
    /\ Len(completed) = 1

\* the analysis is the first run's with one more note, about the failure
FirstWithFailureNote ==
    /\ analysis # None
    /\ [analysis[1] EXCEPT !.notes = <<>>] = [completed[1] EXCEPT !.notes = <<>>]
    /\ Len(analysis[1].notes) = Len(completed[1].notes) + 1
    /\ SubSeq(analysis[1].notes, 1, Len(completed[1].notes)) = completed[1].notes
    /\ IsBypassFailedNote(analysis[1].notes[Len(analysis[1].notes)])

\* at most two runs; a second run only after a first one that returned an
\* analysis without fields
C30_AtMostTwoRuns ==
    /\ Runs <= 2
    /\ SecondRunStarted =>
          /\ completed # <<>>
          /\ completed[1].total_fields = 0
          /\ "No fields found. Suspecting bot protection." \in Range(log)

\* the analysis of a second run that returned replaces the first, with the
\* bypass note after the notes it had
C30_SecondReplacesFirst ==
    Len(completed) = 2 =>
        /\ call \in {"output", "returned", "raised"}
        /\ [analysis[1] EXCEPT !.notes = <<>>] = [completed[2] EXCEPT !.notes = <<>>]
        /\ Len(analysis[1].notes) > Len(completed[2].notes)
        /\ analysis[1].notes[Len(completed[2].notes) + 1] = BypassNote
        /\ analysis[1].forms = forms

\* C30 (as stated): at most two runs of the pipeline, the second only after
\* a first run with total_fields = 0; when the bypass step or the second run
\* fails, the call does not fail and returns the first run's analysis with a
\* 'Cloudflare bypass failed' note; the analysis of a successful second run
\* replaces the first, with the note 'Analyzed with Cloudflare bypass'.
C30_BypassFailureNeverFailsCall ==
    /\ C30_AtMostTwoRuns
    /\ BypassFailed =>
          /\ call \in {"output", "returned"}
          /\ FirstWithFailureNote
    /\ C30_SecondReplacesFirst

\* C30 (amended): as above, but when the bypass step or the second run
\* fails, the first run's analysis with the note goes on to the output step,
\* and the call returns it unless writing the output file raises.
C30_BypassFailureAbsorbed ==
    /\ C30_AtMostTwoRuns
    /\ BypassFailed =>
          /\ call \in {"output", "returned", "raised"}
          /\ call = "raised" => output_file # None
          /\ FirstWithFailureNote
    /\ C30_SecondReplacesFirst

\* C30 witness: the call returned the analysis of the first run, which found
\* no field, with the note of a second run that failed
C30_Witness ==
    /\ call = "returned"
    /\ SecondRunStarted
    /\ BypassFailed
    /\ FirstWithFailureNote
    /\ analysis[1].total_fields = 0

====
